---- MODULE Spec2Model ----
(***************************************************************************)
(* MiFincaManager: the REST backend (signup, login, animals) over the      *)
(* relational schema, as a state machine.  The database holds the users    *)
(* and animals tables with the constraints the schema declares; every      *)
(* request runs its synchronous part on receipt and its database call as   *)
(* a later step, so requests interleave at their awaits.  What follows a   *)
(* handler's database call (bcrypt.compare, jwt.sign, res.json) touches no *)
(* shared state and is part of the same step.  A database call fails only  *)
(* on a constraint of the schema; the connection itself does not fail.     *)
(* Time is counted in hours, the unit of the token lifetime.               *)
(***************************************************************************)
EXTENDS Integers, Sequences, FiniteSets, TLC

\* ------------------------------------------------------------------ bounds
\* Requests the server receives in one behaviour.
MaxReqs == 2
\* Hours the clock can advance.
MaxClock == 1
\* Rows a behaviour inserts into the animals table and its dependents.
MaxRows == 2
\* Fetches the Fincas screen issues while it is on display.
MaxCalls == 3

\* ------------------------------------------------------- program constants
\* z.string().min(6): the least password length signup accepts.
MinPasswordLen == 6
\* z.string().min(3): the least username length the Register page accepts.
MinUsernameLen == 3
\* bcrypt.hash(password, 10): the cost factor.
BcryptRounds == 10
\* jwt.sign(..., { expiresIn: "1h" }): the token's lifetime, in hours.
ExpiresIn == 1

\* process.env.JWT_SECRET, and a key the server does not hold.
JwtSecret == "JWT_SECRET"
OtherKey == "attacker-key"

\* The text of the database's unique-violation error.
DuplicateKeyMsg == "duplicate key value violates unique constraint"

\* --------------------------------------------------------- JSON body values
\* A JSON value of a request body: a string, a number, or an absent field.
JStr(s) == [t |-> "string", v |-> s]
JNum(s) == [t |-> "number", v |-> s]
Undefined == [t |-> "undefined", v |-> ""]

\* JavaScript truthiness (`!x` is its negation): a non-empty string or a
\* non-zero number.
Truthy(x) ==
  \/ x.t = "string" /\ x.v # ""
  \/ x.t = "number" /\ x.v # "0"

\* ------------------------------------------------------------------ bcrypt
Salts == {"s1", "s2"}

\* bcrypt.hash(password, 10) with a generated salt: the digest is a function
\* of the cost, the salt and the password text, written as that triple.
BcryptHash(password, salt) ==
  [cost |-> BcryptRounds, salt |-> salt, of |-> password]

NoHash == [cost |-> 0, salt |-> "", of |-> ""]

\* bcrypt.compare(s, hash): rejects ("throw") unless s is a string, else
\* hashes s with the salt and cost of `hash` and compares the digests.
BcryptCompare(s, hash) ==
  IF s.t # "string" THEN "throw"
  ELSE IF [cost |-> hash.cost, salt |-> hash.salt, of |-> s.v] = hash
       THEN "true" ELSE "false"

\* --------------------------------------------------------------------- jwt
\* One space-separated word of an Authorization header: plain text, or a JWT
\* with its payload (id, username, iat, exp) and the key that signed it.
PlainWord(s) ==
  [text |-> s, id |-> "", username |-> "", iat |-> 0, exp |-> 0, key |-> ""]
NoWord == PlainWord("")

\* Faulty variant of JwtSign: the payload's id is the username.
JwtSignMutWrongId(id, username, t) ==
  [text |-> "jwt", id |-> username, username |-> username,
   iat |-> t, exp |-> t + ExpiresIn, key |-> JwtSecret]

\* jwt.sign({ id, username }, JWT_SECRET, { expiresIn: "1h" }) at time `t`.
JwtSign(id, username, t) ==
  [text |-> "jwt", id |-> id, username |-> username,
   iat |-> t, exp |-> t + ExpiresIn, key |-> JwtSecret]

\* jwt.verify(token, JWT_SECRET) at time `t`: an error for a word that is no
\* JWT, a signature by another key, or an expired token (t >= exp).
JwtVerify(token, t) ==
  token.text = "jwt" /\ token.key = JwtSecret /\ t < token.exp

\* req.user as jwt.verify hands the payload over.
NoUser == [id |-> "", username |-> ""]
Payload(token) == [id |-> token.id, username |-> token.username]

\* The Authorization header: absent, or its words as split(" ") yields them.
NoHeader == [present |-> FALSE, words |-> <<>>]
Header(ws) == [present |-> TRUE, words |-> ws]

\* req.headers["authorization"]?.split(" ")[1]
HeaderToken(h) ==
  IF h.present /\ Len(h.words) >= 2 THEN h.words[2] ELSE NoWord

\* authenticateToken: 401 without a token, 403 when verification fails, else
\* next() (status 0) with req.user set to the payload.
AuthenticateToken(h, t) ==
  LET token == HeaderToken(h) IN
  IF token.text = "" THEN [status |-> 401, user |-> NoUser]
  ELSE IF ~JwtVerify(token, t) THEN [status |-> 403, user |-> NoUser]
  ELSE [status |-> 0, user |-> Payload(token)]

\* ------------------------------------------------------------------ schema
\* Request bodies carry every field the handlers or schemas read; a field the
\* client did not send is Undefined.
NoBody ==
  [username |-> Undefined, email |-> Undefined, password |-> Undefined,
   codigoUnico |-> Undefined, sexo |-> Undefined,
   userId |-> Undefined, id |-> Undefined]

\* Faulty variant of InsertUserSchemaOk: no minimum password length.
InsertUserSchemaOkMutNoMin(body) ==
  /\ body.username.t = "string"
  /\ body.email.t = "string"
  /\ body.password.t = "string"

\* insertUserSchema.safeParse: username and email strings (the columns are
\* not null, no length rule), password a string of at least 6 characters.
InsertUserSchemaOk(body) ==
  /\ body.username.t = "string"
  /\ body.email.t = "string"
  /\ body.password.t = "string"
  /\ Len(body.password.v) >= MinPasswordLen

\* insertAnimalSchema.safeParse: codigoUnico and sexo are required strings
\* (the other columns are nullable); id, userId, createdAt and updatedAt are
\* omitted from the schema, so the parse strips them from its data.
InsertAnimalSchemaOk(body) ==
  /\ body.codigoUnico.t = "string"
  /\ body.sexo.t = "string"

\* Faulty variant of AnimalValues: a userId in the body wins over the token's.
AnimalValuesMutTrustBody(body, user) ==
  [codigoUnico |-> body.codigoUnico.v, sexo |-> body.sexo.v,
   userId |-> IF body.userId.t = "string" THEN body.userId.v ELSE user.id]

\* { ...parsedAnimal.data, userId: req.user.id }: the values the handler
\* inserts for a body that passed the schema.
AnimalValues(body, user) ==
  [codigoUnico |-> body.codigoUnico.v, sexo |-> body.sexo.v,
   userId |-> user.id]

\* ---------------------------------------------------------------- database
\* gen_random_uuid(): the n-th identifier generated.
Uuid(n) == <<"u1", "u2", "u3", "u4", "u5", "u6", "u7", "u8">>[n]

NoUserRow == [id |-> "", username |-> "", passwordHash |-> NoHash, email |-> ""]
NoAnimalRow == [id |-> 0, userId |-> "", codigoUnico |-> "", sexo |-> ""]

\* A database error, as the text of its message: the kind and the constraint.
UniqueViolation(constraint) == <<DuplicateKeyMsg, constraint>>
ForeignKeyViolation(constraint) ==
  <<"insert or update on table violates foreign key constraint", constraint>>
NoError == <<"", "">>

\* Faulty variant of IsDuplicateKey: it looks for a text no error carries.
IsDuplicateKeyMutNever(err) == err[1] = "duplicate key"

\* err.message.includes("duplicate key value violates unique constraint")
IsDuplicateKey(err) == err[1] = DuplicateKeyMsg

\* Faulty variant of DbInsertUser: a table without the unique constraint.
DbInsertUserMutNoUnique(tbl, vals, newId) ==
  LET row == [id |-> newId, username |-> vals.username,
              passwordHash |-> vals.passwordHash, email |-> vals.email]
  IN [ok |-> TRUE, error |-> NoError, row |-> row, rows |-> tbl \cup {row}]

\* Faulty variant of DbInsertUser: the row is returned before it is stored.
DbInsertUserMutNoWrite(tbl, vals, newId) ==
  LET row == [id |-> newId, username |-> vals.username,
              passwordHash |-> vals.passwordHash, email |-> vals.email]
  IN IF \E u \in tbl : u.username = vals.username
     THEN [ok |-> FALSE, error |-> UniqueViolation("users_username_unique"),
           row |-> NoUserRow, rows |-> tbl]
     ELSE [ok |-> TRUE, error |-> NoError, row |-> row, rows |-> tbl]

\* INSERT INTO users ... RETURNING *: username is unique (column constraint
\* and users_username_idx); the id defaults to a generated uuid.
DbInsertUser(tbl, vals, newId) ==
  LET row == [id |-> newId, username |-> vals.username,
              passwordHash |-> vals.passwordHash, email |-> vals.email]
  IN IF \E u \in tbl : u.username = vals.username
     THEN [ok |-> FALSE, error |-> UniqueViolation("users_username_unique"),
           row |-> NoUserRow, rows |-> tbl]
     ELSE [ok |-> TRUE, error |-> NoError, row |-> row, rows |-> tbl \cup {row}]

\* INSERT INTO animals ... RETURNING *: codigo_unico is unique, user_id
\* references users(id); the id is the next value of the serial.
DbInsertAnimal(tbl, usersTbl, vals, newId) ==
  LET row == [id |-> newId, userId |-> vals.userId,
              codigoUnico |-> vals.codigoUnico, sexo |-> vals.sexo]
  IN IF \E a \in tbl : a.codigoUnico = vals.codigoUnico
     THEN [ok |-> FALSE, error |-> UniqueViolation("animals_codigo_unico_unique"),
           row |-> NoAnimalRow, rows |-> tbl]
     ELSE IF ~\E u \in usersTbl : u.id = vals.userId
     THEN [ok |-> FALSE, error |-> ForeignKeyViolation("animals_user_id_users_id_fk"),
           row |-> NoAnimalRow, rows |-> tbl]
     ELSE [ok |-> TRUE, error |-> NoError, row |-> row, rows |-> tbl \cup {row}]

\* SELECT * FROM users WHERE username = $1
DbSelectUsersByUsername(tbl, username) == {u \in tbl : u.username = username}

\* Faulty variant of DbSelectAnimalsByUser: the select without its where.
DbSelectAnimalsByUserMutNoWhere(tbl, userId) == tbl

\* SELECT * FROM animals WHERE user_id = $1
DbSelectAnimalsByUser(tbl, userId) == {a \in tbl : a.userId = userId}

\* --------------------------------------------------- the dependent tables
\* The seven record tables: each row has an animal_id and a user_id.
RecordTables ==
  {"weight_records", "health_records", "vaccinations", "pest_control",
   "reproduction", "feeding", "traceability"}

\* The nine tables that depend on users and animals.
DependentTables == RecordTables \cup {"lotes", "lote_animals"}

\* `key` is the id of a row of `tbl`: what `.references(() => tbl.id)` demands.
References(tbl, key) == \E r \in tbl : r.id = key

\* INSERT into the record table `table`: animal_id references animals(id) and
\* user_id references users(id), both NOT NULL.
DbInsertRecord(tbl, animalsTbl, usersTbl, table, animalId, userId, newId) ==
  IF References(animalsTbl, animalId) /\ References(usersTbl, userId)
  THEN [ok |-> TRUE,
        rows |-> tbl \cup {[table |-> table, id |-> newId,
                            animalId |-> animalId, userId |-> userId]}]
  ELSE [ok |-> FALSE, rows |-> tbl]

\* INSERT INTO lotes: user_id references users(id); finca_id is a plain
\* integer with no reference, and the table has no animal_id.
DbInsertLote(tbl, usersTbl, userId, fincaId, newId) ==
  IF References(usersTbl, userId)
  THEN [ok |-> TRUE,
        rows |-> tbl \cup {[id |-> newId, userId |-> userId, fincaId |-> fincaId]}]
  ELSE [ok |-> FALSE, rows |-> tbl]

\* INSERT INTO lote_animals: lote_id, animal_id and user_id all reference.
DbInsertLoteAnimal(tbl, lotesTbl, animalsTbl, usersTbl, loteId, animalId, userId, newId) ==
  IF /\ References(lotesTbl, loteId)
     /\ References(animalsTbl, animalId)
     /\ References(usersTbl, userId)
  THEN [ok |-> TRUE,
        rows |-> tbl \cup {[id |-> newId, loteId |-> loteId,
                            animalId |-> animalId, userId |-> userId]}]
  ELSE [ok |-> FALSE, rows |-> tbl]

\* Faulty variant of OnDeleteCascade: the referencing rows are left behind.
OnDeleteCascadeMutKeep(tbl, column, keys) == tbl

\* `onDelete: "cascade"` on the column `column` of `tbl`, when the rows with
\* the ids `keys` of the referenced table are deleted.
OnDeleteCascade(tbl, column, keys) == {r \in tbl : r[column] \notin keys}

\* The ids of the rows of `tbl` that are not in `rest`.
Removed(tbl, rest) == {r.id : r \in tbl \ rest}

\* The five groups of tables as one value.
Database(u, a, r, l, la) ==
  [users |-> u, animals |-> a, records |-> r, lotes |-> l, loteAnimals |-> la]

\* DELETE FROM animals WHERE id = $1, with the cascades on animal_id.
DbDeleteAnimal(db, id) ==
  LET rest == {a \in db.animals : a.id # id}
      gone == Removed(db.animals, rest)
  IN Database(db.users, rest,
       OnDeleteCascade(db.records, "animalId", gone),
       db.lotes,
       OnDeleteCascade(db.loteAnimals, "animalId", gone))

\* DELETE FROM lotes WHERE id = $1, with the cascade on lote_id.
DbDeleteLote(db, id) ==
  LET rest == {l \in db.lotes : l.id # id}
  IN Database(db.users, db.animals, db.records, rest,
       OnDeleteCascade(db.loteAnimals, "loteId", Removed(db.lotes, rest)))

\* DELETE FROM users WHERE id = $1: the cascades on user_id, and from the
\* animals and lotes they remove onto the rows that reference those.
DbDeleteUser(db, id) ==
  LET rest == {u \in db.users : u.id # id}
      gone == Removed(db.users, rest)
      restAnimals == OnDeleteCascade(db.animals, "userId", gone)
      restLotes == OnDeleteCascade(db.lotes, "userId", gone)
  IN Database(rest, restAnimals,
       OnDeleteCascade(OnDeleteCascade(db.records, "userId", gone),
                       "animalId", Removed(db.animals, restAnimals)),
       restLotes,
       OnDeleteCascade(
         OnDeleteCascade(OnDeleteCascade(db.loteAnimals, "userId", gone),
                         "animalId", Removed(db.animals, restAnimals)),
         "loteId", Removed(db.lotes, restLotes)))

\* No DELETE statement yet.
NoDelete == [table |-> "", cascaded |-> 0]

\* The number of dependent rows in the database `db`.
DependentRows(db) ==
  Cardinality(db.records) + Cardinality(db.lotes) + Cardinality(db.loteAnimals)

\* ------------------------------------------------------------------- state
VARIABLES
  users,      \* the users table: a set of rows
  animals,    \* the animals table: a set of rows
  userSeq,    \* uuids generated so far
  animalSeq,  \* the last value of animals' id serial
  reqs,       \* the requests, in order of arrival, with their responses
  received,   \* the requests received since the server started
  now,        \* the clock, in hours
  records,    \* the rows of the seven record tables, each with its table
  lotes,      \* the lotes table
  loteAnimals, \* the lote_animals table
  serial,     \* the last value of each dependent table's id serial
  lastDelete, \* the last DELETE statement and the rows its cascade removed
  route,      \* the browser's location
  message,    \* the `message` state of the page on screen
  awaiting,   \* the requests whose response a fetch of the page awaits
  handled,    \* the requests whose response the page has handled
  appToken,   \* App's `token` state (NoWord for null)
  localStorage, \* localStorage's 'token' entry (NoWord when absent)
  fincas,     \* Fincas' `fincas` state: the list on display
  editingId,  \* Fincas' `editingId` state (0 for null)
  nameField,  \* Fincas' `name` state
  locationField, \* Fincas' `location` state
  calls,      \* the fetches of the Fincas screen, in the order issued
  fincaRows,  \* the server's fincas
  fincaSeq    \* the last id the server gave a finca

\* The tables that the routes of the server never touch.
schemaVars == <<records, lotes, loteAnimals, serial, lastDelete>>

\* The browser: the pages' state and their fetches.
\* The Fincas screen and the routes it calls.
fincasVars ==
  <<fincas, editingId, nameField, locationField, calls, fincaRows, fincaSeq>>

clientVars ==
  <<route, message, awaiting, handled, appToken, localStorage, fincasVars>>

\* Everything that the server's handlers leave alone.
elsewhere == <<schemaVars, clientVars>>

vars == <<users, animals, userSeq, animalSeq, reqs, received, now, elsewhere>>

\* A request and its response.  pc is the await the handler is suspended at
\* ("insert", "lookup", "query") or "done"; status 0 means no response yet;
\* dbCalls counts the statements the handler has sent to the database.
Req(kind, header, body, t) ==
  [kind |-> kind, pc |-> "done", at |-> t, header |-> header, body |-> body,
   user |-> NoUser, status |-> 0, token |-> NoWord,
   newUser |-> NoUserRow, newAnimal |-> NoAnimalRow, list |-> {},
   error |-> NoError, dbCalls |-> 0]

\* The handler's database call has returned (or thrown).
Called(r) == [r EXCEPT !.dbCalls = @ + 1]

Respond(r, status) == [r EXCEPT !.pc = "done", !.status = status]

\* ------------------------------------------------------------------ inputs
Usernames == {"", "ana"}
PasswordTexts == {"abc", "secret"}

\* The bodies clients send to POST /api/signup: an empty and a non-empty
\* username, a short and a long enough password, and one without an email.
SignupBodies ==
  {[NoBody EXCEPT !.username = JStr(u), !.email = JStr("a@x"), !.password = JStr(p)] :
     u \in Usernames, p \in PasswordTexts}
  \cup {[NoBody EXCEPT !.username = JStr("ana"), !.password = JStr("secret")]}

\* The bodies clients send to POST /api/login: the right and a wrong
\* password, a number as password, an empty username, no password.
LoginBodies ==
  {[NoBody EXCEPT !.username = JStr("ana"), !.password = JStr(p)] : p \in PasswordTexts}
  \cup {[NoBody EXCEPT !.username = JStr("ana"), !.password = JNum("123456")],
        [NoBody EXCEPT !.username = JStr(""), !.password = JStr("secret")],
        [NoBody EXCEPT !.username = JStr("ana")]}

\* The bodies clients send to POST /api/animals; some carry a userId and an id.
AnimalBodies ==
  {[NoBody EXCEPT !.codigoUnico = JStr("c1"), !.sexo = JStr("M")],
   [NoBody EXCEPT !.codigoUnico = JStr("c2"), !.sexo = JStr("M"),
                  !.userId = JStr("u2"), !.id = JNum("1")],
   [NoBody EXCEPT !.codigoUnico = JStr("c2")]}

\* A token signed with a key that is not the server's.
ForgedToken ==
  [text |-> "jwt", id |-> "u1", username |-> "ana",
   iat |-> 0, exp |-> MaxClock + ExpiresIn + 1, key |-> OtherKey]

\* The tokens login has returned so far.
IssuedTokens ==
  {reqs[i].token : i \in {j \in 1..Len(reqs) : reqs[j].token.text = "jwt"}}

\* The Authorization headers clients send: none, "Bearer " with nothing after
\* it, a token (issued or forged) under the Bearer scheme, an issued token
\* under another scheme, and an issued token alone.
Headers ==
  {NoHeader, Header(<<PlainWord("Bearer"), NoWord>>),
   Header(<<PlainWord("Bearer"), ForgedToken>>)}
  \cup {Header(<<PlainWord(s), t>>) : s \in {"Bearer", "Basic"}, t \in IssuedTokens}
  \cup {Header(<<t>>) : t \in IssuedTokens}

\* The requests clients send to POST /api/animals: every header with the
\* first body, every body under a Bearer header.
PostAnimalInputs ==
  {<<h, CHOOSE b \in AnimalBodies : b.userId = Undefined /\ b.sexo # Undefined>> :
     h \in Headers}
  \cup {<<h, b>> : h \in {x \in Headers : x.present /\ x.words[1].text = "Bearer"},
                  b \in AnimalBodies}

\* -------------------------------------------------------------------- Init
\* The rows a database that was in use before the server started holds.
SeedUsers ==
  {[id |-> Uuid(1), username |-> "ana",
    passwordHash |-> BcryptHash("secret", "s1"), email |-> "a@x"],
   [id |-> Uuid(2), username |-> "bob",
    passwordHash |-> BcryptHash("secret", "s2"), email |-> "b@x"]}

SeedAnimals ==
  {[id |-> 1, userId |-> Uuid(1), codigoUnico |-> "c1", sexo |-> "M"],
   [id |-> 2, userId |-> Uuid(2), codigoUnico |-> "c3", sexo |-> "F"]}

\* POST /api/login: `if (!username || !password)`.
LoginFieldsOk(body) == Truthy(body.username) /\ Truthy(body.password)

\* Faulty variant of LoginReply: the password is never compared.
LoginReplyMutNoCompare(tbl, body, t) ==
  LET rows == DbSelectUsersByUsername(tbl, body.username.v)
      user == IF rows = {} THEN NoUserRow ELSE CHOOSE u \in rows : TRUE
  IN IF rows = {}
     THEN [status |-> 401, token |-> NoWord, error |-> "Credenciales inválidas"]
     ELSE [status |-> 200, token |-> JwtSign(user.id, user.username, t),
           error |-> ""]

\* POST /api/login, the try block on the users table `tbl` at time `t`: the
\* first row with the username, bcrypt.compare, jwt.sign; 401 when there is
\* no row or the comparison is false, 500 with the exception's message when
\* something throws.  `error` is the body's error text, "" when it has none.
LoginReply(tbl, body, t) ==
  LET rows == DbSelectUsersByUsername(tbl, body.username.v)
      user == IF rows = {} THEN NoUserRow ELSE CHOOSE u \in rows : TRUE
      cmp == IF rows = {} THEN "skipped"
             ELSE BcryptCompare(body.password, user.passwordHash)
  IN IF rows = {} \/ cmp = "false"
     THEN [status |-> 401, token |-> NoWord, error |-> "Credenciales inválidas"]
     ELSE IF cmp = "throw"
     THEN [status |-> 500, token |-> NoWord,
           error |-> "Illegal arguments: number, string"]
     ELSE [status |-> 200, token |-> JwtSign(user.id, user.username, t),
           error |-> ""]

\* POST /api/login as a whole, on the users table `tbl` at time `t`.
LoginRoute(tbl, body, t) ==
  IF ~LoginFieldsOk(body)
  THEN [status |-> 400, token |-> NoWord, error |-> "Usuario y contraseña requeridos"]
  ELSE LoginReply(tbl, body, t)

\* The login of ana that an earlier session made, as the handler answers it
\* on the seeded database at hour 0; its token is still in the client's hands.
EarlierLogin ==
  LET body == [NoBody EXCEPT !.username = JStr("ana"), !.password = JStr("secret")]
      rep == LoginReply(SeedUsers, body, 0)
  IN [Respond(Called(Req("login", NoHeader, body, 0)), rep.status)
        EXCEPT !.token = rep.token]

\* The dependent tables before any statement on them.
SchemaEmpty ==
  /\ records = {} /\ lotes = {} /\ loteAnimals = {}
  /\ serial = [t \in DependentTables |-> 0]
  /\ lastDelete = NoDelete

\* The Fincas screen is not on display.
FincasUnmounted ==
  /\ fincas = {} /\ editingId = 0 /\ nameField = "" /\ locationField = ""
  /\ calls = <<>> /\ fincaRows = {} /\ fincaSeq = 0

\* No browser: the requests come from other callers of the API.
ClientIdle ==
  /\ route = "" /\ message = ""
  /\ awaiting = {} /\ handled = {}
  /\ appToken = NoWord /\ localStorage = NoWord
  /\ FincasUnmounted

\* The server starts on an empty database, or on one already in use with a
\* client still holding the token of an earlier login.
Init ==
  /\ \E seeded \in BOOLEAN :
       /\ users = IF seeded THEN SeedUsers ELSE {}
       /\ animals = IF seeded THEN SeedAnimals ELSE {}
       /\ userSeq = IF seeded THEN 2 ELSE 0
       /\ animalSeq = IF seeded THEN 2 ELSE 0
       /\ reqs = IF seeded THEN <<EarlierLogin>> ELSE <<>>
  /\ received = 0
  /\ now = 0
  /\ SchemaEmpty
  /\ ClientIdle

\* ----------------------------------------------------------------- actions
\* Whether another request may arrive (the bound on a behaviour's requests).
Accepting == received < MaxReqs

\* POST /api/signup, to the first await: safeParse, 400 on failure.
ReceiveSignup(body) ==
  /\ Accepting
  /\ received' = received + 1
  /\ LET r == Req("signup", NoHeader, body, now) IN
     reqs' = Append(reqs, IF ~InsertUserSchemaOk(body) THEN Respond(r, 400)
                          ELSE [r EXCEPT !.pc = "insert"])
  /\ UNCHANGED <<users, animals, userSeq, animalSeq, now>>
  /\ UNCHANGED elsewhere

\* POST /api/signup, from bcrypt.hash on: the insert and the response.
SignupInsert(i) ==
  /\ reqs[i].kind = "signup" /\ reqs[i].pc = "insert"
  /\ \E salt \in Salts :
       LET b == reqs[i].body
           res == DbInsertUser(users,
                    [username |-> b.username.v, email |-> b.email.v,
                     passwordHash |-> BcryptHash(b.password.v, salt)],
                    Uuid(userSeq + 1))
       IN /\ users' = res.rows
          /\ userSeq' = IF res.ok THEN userSeq + 1 ELSE userSeq
          /\ reqs' = [reqs EXCEPT ![i] =
               IF res.ok THEN [Respond(Called(@), 201) EXCEPT !.newUser = res.row]
               ELSE IF IsDuplicateKey(res.error)
               THEN [Respond(Called(@), 409) EXCEPT !.error = res.error]
               ELSE [Respond(Called(@), 500) EXCEPT !.error = res.error]]
  /\ UNCHANGED <<animals, animalSeq, received, now>>
  /\ UNCHANGED elsewhere

\* POST /api/login, to the first await: 400 unless both fields are given.
ReceiveLogin(body) ==
  /\ Accepting
  /\ received' = received + 1
  /\ LET r == Req("login", NoHeader, body, now) IN
     reqs' = Append(reqs, IF ~LoginFieldsOk(body) THEN Respond(r, 400)
                          ELSE [r EXCEPT !.pc = "lookup"])
  /\ UNCHANGED <<users, animals, userSeq, animalSeq, now>>
  /\ UNCHANGED elsewhere

\* POST /api/login, from the select on: the lookup and the response.
LoginLookup(i) ==
  /\ reqs[i].kind = "login" /\ reqs[i].pc = "lookup"
  /\ LET rep == LoginReply(users, reqs[i].body, now) IN
     reqs' = [reqs EXCEPT ![i] =
       [Respond(Called(@), rep.status) EXCEPT !.token = rep.token]]
  /\ UNCHANGED <<users, animals, userSeq, animalSeq, received, now>>
  /\ UNCHANGED elsewhere

\* A protected route, to its handler's first await: authenticateToken, then
\* the handler's `if (!req.user || !req.user.id)`; status 0 when it goes on.
Admit(header, t) ==
  LET auth == AuthenticateToken(header, t) IN
  IF auth.status # 0 THEN auth
  ELSE IF auth.user.id = "" THEN [status |-> 401, user |-> auth.user]
  ELSE auth

\* GET /api/animals, to the first await.
ReceiveGetAnimals(header) ==
  /\ Accepting
  /\ received' = received + 1
  /\ LET r == Req("getAnimals", header, NoBody, now)
         auth == Admit(header, now)
     IN reqs' = Append(reqs, IF auth.status # 0 THEN Respond(r, auth.status)
                             ELSE [r EXCEPT !.pc = "query", !.user = auth.user])
  /\ UNCHANGED <<users, animals, userSeq, animalSeq, now>>
  /\ UNCHANGED elsewhere

\* GET /api/animals, from the select on: the caller's animals.
AnimalsQuery(i) ==
  /\ reqs[i].kind = "getAnimals" /\ reqs[i].pc = "query"
  /\ reqs' = [reqs EXCEPT ![i] =
       [Respond(Called(@), 200)
          EXCEPT !.list = DbSelectAnimalsByUser(animals, reqs[i].user.id)]]
  /\ UNCHANGED <<users, animals, userSeq, animalSeq, received, now>>
  /\ UNCHANGED elsewhere

\* POST /api/animals, to the first await: the middleware, then safeParse.
ReceivePostAnimal(header, body) ==
  /\ Accepting
  /\ received' = received + 1
  /\ LET r == Req("postAnimal", header, body, now)
         auth == Admit(header, now)
     IN reqs' = Append(reqs,
          IF auth.status # 0 THEN Respond(r, auth.status)
          ELSE IF ~InsertAnimalSchemaOk(body)
          THEN [Respond(r, 400) EXCEPT !.user = auth.user]
          ELSE [r EXCEPT !.pc = "insert", !.user = auth.user])
  /\ UNCHANGED <<users, animals, userSeq, animalSeq, now>>
  /\ UNCHANGED elsewhere

\* POST /api/animals, the insert and the response: every error is a 500.
AnimalInsert(i) ==
  /\ reqs[i].kind = "postAnimal" /\ reqs[i].pc = "insert"
  /\ LET res == DbInsertAnimal(animals, users,
                  AnimalValues(reqs[i].body, reqs[i].user), animalSeq + 1)
     IN /\ animals' = res.rows
        /\ reqs' = [reqs EXCEPT ![i] =
             IF res.ok THEN [Respond(Called(@), 201) EXCEPT !.newAnimal = res.row]
             ELSE [Respond(Called(@), 500) EXCEPT !.error = res.error]]
  /\ animalSeq' = animalSeq + 1
  /\ UNCHANGED <<users, userSeq, received, now>>
  /\ UNCHANGED elsewhere

\* An hour passes.
Tick ==
  /\ now < MaxClock
  /\ now' = now + 1
  /\ UNCHANGED <<users, animals, userSeq, animalSeq, reqs, received>>
  /\ UNCHANGED elsewhere

\* The inputs are enumerated only while a request may arrive.
Next ==
  \/ Accepting /\ \E body \in SignupBodies : ReceiveSignup(body)
  \/ Accepting /\ \E body \in LoginBodies : ReceiveLogin(body)
  \/ Accepting /\ \E header \in Headers : ReceiveGetAnimals(header)
  \/ Accepting /\ \E in \in PostAnimalInputs : ReceivePostAnimal(in[1], in[2])
  \/ \E i \in 1..Len(reqs) : SignupInsert(i)
  \/ \E i \in 1..Len(reqs) : LoginLookup(i)
  \/ \E i \in 1..Len(reqs) : AnimalsQuery(i)
  \/ \E i \in 1..Len(reqs) : AnimalInsert(i)
  \/ Tick

Spec == Init /\ [][Next]_vars

\* ------------------------------------------------------------------ claims
ReqIds == 1..Len(reqs)
IsDone(i) == reqs[i].pc = "done"
Protected(i) == reqs[i].kind \in {"getAnimals", "postAnimal"}

\* The users row a login's credentials match: the username is the row's and
\* the password, a string, hashes to the row's stored hash under its salt.
Matches(body, u) ==
  /\ u.username = body.username.v
  /\ body.password.t = "string"
  /\ BcryptHash(body.password.v, u.passwordHash.salt) = u.passwordHash

ReachedHandler(i) == reqs[i].user # NoUser

\* C2 (as claimed): a protected request reaches its handler only if its
\* Authorization header is `Bearer <token>` with a token that verifies; with
\* no token it is answered 401, with a token that fails verification 403, in
\* both cases without the handler running.
C2_Claim ==
  \A i \in ReqIds : Protected(i) =>
    LET h == reqs[i].header
        token == HeaderToken(h)
    IN /\ ReachedHandler(i) =>
            /\ h.present /\ Len(h.words) = 2 /\ h.words[1].text = "Bearer"
            /\ JwtVerify(token, reqs[i].at)
       /\ token = NoWord => (reqs[i].status = 401 /\ ~ReachedHandler(i))
       /\ (token # NoWord /\ ~JwtVerify(token, reqs[i].at))
            => (reqs[i].status = 403 /\ ~ReachedHandler(i))

\* The users row whose username a login gave.
UserNamed(name) == CHOOSE u \in users : u.username = name

\* Login i returned a token and request j presents it as `Bearer <token>`.
PresentsTokenOf(j, i) ==
  /\ reqs[i].kind = "login" /\ reqs[i].status = 200
  /\ Protected(j)
  /\ reqs[j].header = Header(<<PlainWord("Bearer"), reqs[i].token>>)

\* req.user is the id and username of the user that logged in as request i.
AdmittedAs(j, i) ==
  LET u == UserNamed(reqs[i].body.username.v)
  IN reqs[j].user = [id |-> u.id, username |-> u.username]

\* C3 (as claimed): the token a successful login returned for user u, when
\* presented as `Bearer <token>` to a protected route, is admitted and sets
\* req.user to u's id and username.
C3_Original ==
  \A i, j \in ReqIds : PresentsTokenOf(j, i) => AdmittedAs(j, i)

\* C3 (amended): the token a successful login returned for user u, when
\* presented as `Bearer <token>` to a protected route before it expires (less
\* than one hour after it was issued), is admitted and sets req.user to u's
\* id and username.
C3_LoginTokenAdmitted ==
  \A i, j \in ReqIds :
    (PresentsTokenOf(j, i) /\ reqs[j].at < reqs[i].token.exp) => AdmittedAs(j, i)

\* C3 witness: a protected request presented a login's token in time and was
\* admitted as that user.
C3_Witness ==
  \E i, j \in ReqIds :
    /\ PresentsTokenOf(j, i) /\ reqs[j].at < reqs[i].token.exp
    /\ AdmittedAs(j, i) /\ reqs[j].user # NoUser

\* Request i was answered in this step.
Answered(i) ==
  /\ i \in 1..Len(reqs')
  /\ reqs'[i].pc = "done"
  /\ i \in 1..Len(reqs) => reqs[i].pc # "done"

\* C4 (as claimed): when signup answers 201, a login with the same username
\* and password right after it returns a token.
C4_Claim ==
  [][\A i \in 1..Len(reqs') :
       (Answered(i) /\ reqs'[i].kind = "signup" /\ reqs'[i].status = 201)
         => LoginRoute(users', reqs'[i].body, now').status = 200]_vars

\* A password that is a string of fewer than 6 characters.
ShortPassword(body) ==
  body.password.t = "string" /\ Len(body.password.v) < 6

\* C5: signup with a password shorter than 6 characters is answered 400 and
\* leaves the users table unchanged, whatever the username and email.
C5_ShortPasswordRejected ==
  [][\A i \in 1..Len(reqs') :
       (reqs'[i].kind = "signup" /\ ShortPassword(reqs'[i].body)
        /\ (i > Len(reqs) \/ reqs[i] # reqs'[i]))
         => /\ i > Len(reqs)
            /\ reqs'[i].pc = "done" /\ reqs'[i].status = 400
            /\ users' = users]_vars

\* C5 witness: signups with a short password were answered 400, with and
\* without a username.
C5_Witness ==
  \E i, j \in ReqIds :
    /\ reqs[i].kind = "signup" /\ reqs[j].kind = "signup"
    /\ ShortPassword(reqs[i].body) /\ ShortPassword(reqs[j].body)
    /\ reqs[i].body.username # reqs[j].body.username
    /\ reqs[i].status = 400 /\ reqs[j].status = 400

\* C6: signup with a valid body whose username is an existing user's is
\* answered 409 and leaves the users table unchanged.
C6_DuplicateUsername409 ==
  [][\A i \in ReqIds :
       (Answered(i) /\ reqs[i].kind = "signup" /\ reqs[i].pc = "insert"
        /\ \E u \in users : u.username = reqs[i].body.username.v)
         => (reqs'[i].status = 409 /\ users' = users)]_vars

\* C6 witness: a signup was answered 409 while a row has its username.
C6_Witness ==
  \E i \in ReqIds :
    /\ reqs[i].kind = "signup" /\ reqs[i].status = 409
    /\ \E u \in users : u.username = reqs[i].body.username.v

\* C7 (as claimed): an authenticated POST /api/animals with a valid body
\* whose codigoUnico is an existing animal's is answered 409 and leaves the
\* animals table unchanged.
C7_Claim ==
  [][\A i \in ReqIds :
       (Answered(i) /\ reqs[i].kind = "postAnimal" /\ reqs[i].pc = "insert"
        /\ \E a \in animals : a.codigoUnico = reqs[i].body.codigoUnico.v)
         => (reqs'[i].status = 409 /\ animals' = animals)]_vars

\* C8: no two users rows share a username, no two animals rows share a
\* codigoUnico, and of the signups with one username at most one is answered
\* 201, however the requests interleave.
C8_Uniqueness ==
  /\ \A u, v \in users : u.username = v.username => u = v
  /\ \A a, b \in animals : a.codigoUnico = b.codigoUnico => a = b
  /\ \A i, j \in ReqIds :
       (/\ reqs[i].kind = "signup" /\ reqs[j].kind = "signup"
        /\ reqs[i].status = 201 /\ reqs[j].status = 201
        /\ reqs[i].body.username = reqs[j].body.username) => i = j

\* C8 witness: two signups with one username were in flight together (the
\* later one answered 201 while the earlier one still waits at its insert).
C8_Witness ==
  \E i, j \in ReqIds :
    /\ i < j
    /\ reqs[i].kind = "signup" /\ reqs[j].kind = "signup"
    /\ reqs[i].body.username = reqs[j].body.username
    /\ reqs[i].pc = "insert" /\ reqs[j].status = 201

\* The id the token of request i carries.
TokenId(i) == HeaderToken(reqs[i].header).id

\* C9: GET /api/animals answers with exactly the animals whose userId is the
\* id in the caller's token: no animal of another user, and the same answer
\* whatever rows other users own.
C9_OwnAnimalsOnly ==
  [][\A i \in ReqIds :
       (Answered(i) /\ reqs[i].kind = "getAnimals" /\ reqs[i].pc = "query")
         => /\ reqs'[i].status = 200
            /\ reqs'[i].list = {a \in animals : a.userId = TokenId(i)}
            /\ reqs'[i].list =
                 DbSelectAnimalsByUser({a \in animals : a.userId = TokenId(i)},
                                       TokenId(i))]_vars

\* C9 witness: a GET returned the caller's animals while another user owns
\* animals too.
C9_Witness ==
  \E i \in ReqIds :
    /\ reqs[i].kind = "getAnimals" /\ reqs[i].status = 200
    /\ reqs[i].list # {}
    /\ \E a \in animals : a.userId # TokenId(i)

\* C10: an animal created through POST /api/animals belongs to the user whose
\* id the request's token carries, whatever userId or id the body gives, and
\* keeps that owner.
C10_OwnerFromToken ==
  \A i \in ReqIds : (reqs[i].kind = "postAnimal" /\ reqs[i].status = 201) =>
    /\ reqs[i].newAnimal.userId = TokenId(i)
    /\ \E a \in animals : a.id = reqs[i].newAnimal.id
    /\ \A a \in animals : a.id = reqs[i].newAnimal.id => a.userId = TokenId(i)

\* C10 witness: an animal was created from a body naming another user.
C10_Witness ==
  \E i \in ReqIds :
    /\ reqs[i].kind = "postAnimal" /\ reqs[i].status = 201
    /\ reqs[i].body.userId.t = "string"
    /\ reqs[i].body.userId.v # TokenId(i)

\* ------------------------------------------- statements on the dependents
\* The database as the statements below see it.
Db == Database(users, animals, records, lotes, loteAnimals)

\* The rows inserted so far into the tables of `ts`.
RECURSIVE SerialSum(_)
SerialSum(ts) ==
  IF ts = {} THEN 0
  ELSE LET t == CHOOSE x \in ts : TRUE IN serial[t] + SerialSum(ts \ {t})

\* Whether another row may be inserted (the bound on a behaviour's inserts).
Inserting ==
  SerialSum(DependentTables) + (animalSeq - Cardinality(SeedAnimals)) < MaxRows

\* The keys a statement may name: those of the seeded rows, of the rows
\* inserted later, and one that never exists.
UserKeys == {Uuid(1), Uuid(2), Uuid(8)}
AnimalKeys == 1..3
LoteKeys == 1..2

\* The server's requests play no part in the statements below.
ServerIdle == UNCHANGED <<userSeq, reqs, received, now, clientVars>>

\* INSERT INTO animals.
InsertAnimalRow(userId) ==
  /\ Inserting
  /\ LET res == DbInsertAnimal(animals, users,
                  [userId |-> userId, codigoUnico |-> "c2", sexo |-> "F"],
                  animalSeq + 1)
     IN animals' = res.rows
  /\ animalSeq' = animalSeq + 1
  /\ UNCHANGED <<users, schemaVars>>
  /\ ServerIdle

\* INSERT into one of the seven record tables.
InsertRecord(table, animalId, userId) ==
  /\ Inserting
  /\ LET res == DbInsertRecord(records, animals, users, table, animalId,
                               userId, serial[table] + 1)
     IN records' = res.rows
  /\ serial' = [serial EXCEPT ![table] = @ + 1]
  /\ UNCHANGED <<users, animals, animalSeq, lotes, loteAnimals, lastDelete>>
  /\ ServerIdle

\* INSERT INTO lotes.
InsertLote(userId, fincaId) ==
  /\ Inserting
  /\ LET res == DbInsertLote(lotes, users, userId, fincaId, serial["lotes"] + 1)
     IN lotes' = res.rows
  /\ serial' = [serial EXCEPT !["lotes"] = @ + 1]
  /\ UNCHANGED <<users, animals, animalSeq, records, loteAnimals, lastDelete>>
  /\ ServerIdle

\* INSERT INTO lote_animals.
InsertLoteAnimal(loteId, animalId, userId) ==
  /\ Inserting
  /\ LET res == DbInsertLoteAnimal(loteAnimals, lotes, animals, users, loteId,
                  animalId, userId, serial["lote_animals"] + 1)
     IN loteAnimals' = res.rows
  /\ serial' = [serial EXCEPT !["lote_animals"] = @ + 1]
  /\ UNCHANGED <<users, animals, animalSeq, records, lotes, lastDelete>>
  /\ ServerIdle

\* A DELETE statement on `table` that leaves the database `db`.
Delete(table, db) ==
  /\ users' = db.users
  /\ animals' = db.animals
  /\ records' = db.records
  /\ lotes' = db.lotes
  /\ loteAnimals' = db.loteAnimals
  /\ lastDelete' = [table |-> table,
                    cascaded |-> DependentRows(Db) - DependentRows(db)]
  /\ UNCHANGED <<animalSeq, serial>>
  /\ ServerIdle

\* DELETE FROM users WHERE id = $1.
DeleteUser(id) == Delete("users", DbDeleteUser(Db, id))

\* DELETE FROM animals WHERE id = $1.
DeleteAnimal(id) == Delete("animals", DbDeleteAnimal(Db, id))

\* DELETE FROM lotes WHERE id = $1.
DeleteLote(id) ==
  /\ lotes # {}
  /\ Delete("lotes", DbDeleteLote(Db, id))

\* A database in use, before any statement on the dependent tables.
InitSchema ==
  /\ users = SeedUsers /\ animals = SeedAnimals
  /\ userSeq = 2 /\ animalSeq = 2
  /\ reqs = <<>> /\ received = 0 /\ now = 0
  /\ SchemaEmpty
  /\ ClientIdle

NextSchema ==
  \/ Inserting /\ \E userId \in UserKeys : InsertAnimalRow(userId)
  \/ Inserting /\ \E table \in RecordTables, animalId \in AnimalKeys,
                     userId \in UserKeys : InsertRecord(table, animalId, userId)
  \/ Inserting /\ \E userId \in UserKeys : InsertLote(userId, 1)
  \/ Inserting /\ \E loteId \in LoteKeys, animalId \in AnimalKeys,
                     userId \in UserKeys : InsertLoteAnimal(loteId, animalId, userId)
  \/ \E id \in UserKeys : DeleteUser(id)
  \/ \E id \in AnimalKeys : DeleteAnimal(id)
  \/ \E id \in LoteKeys : DeleteLote(id)

SpecSchema == InitSchema /\ [][NextSchema]_vars

\* ------------------------------------------------------------- claim C11
\* The animal a dependent row references: 0 when its table has no animal_id.
AnimalOf(r) == IF "animalId" \in DOMAIN r THEN r.animalId ELSE 0

\* C11, as stated: every row of the nine dependent tables references an
\* existing animal and an existing user.
C11_Original ==
  \A r \in records \cup lotes \cup loteAnimals :
    References(animals, AnimalOf(r)) /\ References(users, r.userId)

\* The references the schema declares all resolve: a record's animal and
\* user, a lote's user, a lote_animals row's lote, animal and user.
ReferencesResolve ==
  /\ \A a \in animals : References(users, a.userId)
  /\ \A r \in records :
       References(animals, r.animalId) /\ References(users, r.userId)
  /\ \A l \in lotes : References(users, l.userId)
  /\ \A la \in loteAnimals :
       /\ References(lotes, la.loteId)
       /\ References(animals, la.animalId)
       /\ References(users, la.userId)

\* A statement that removes a user or an animal goes through, and removes
\* exactly the rows that referenced a removed row.
CascadeStep ==
  LET goneUsers == Removed(users, users')
      goneAnimals == Removed(animals, animals')
      goneLotes == Removed(lotes, lotes')
  IN (goneUsers # {} \/ goneAnimals # {}) =>
       /\ goneUsers # {} => animals' = {a \in animals : a.userId \notin goneUsers}
       /\ records' = {r \in records :
            r.userId \notin goneUsers /\ r.animalId \notin goneAnimals}
       /\ lotes' = {l \in lotes : l.userId \notin goneUsers}
       /\ loteAnimals' = {la \in loteAnimals :
            /\ la.userId \notin goneUsers
            /\ la.animalId \notin goneAnimals
            /\ la.loteId \notin goneLotes}

\* C11: in every reachable database state each row of the seven record
\* tables and of lote_animals references an existing animal and an existing
\* user, each lotes row references an existing user (the table has no animal
\* column), each lote_animals row references an existing lote, and deleting
\* a user or an animal removes every row that references it.
C11_NoDanglingReference == []ReferencesResolve /\ [][CascadeStep]_vars

\* A user has been deleted and dependent rows went with the deletion,
\* and rows of other users remain.
C11_Witness ==
  /\ lastDelete.table = "users" /\ lastDelete.cascaded >= 1
  /\ records \cup lotes \cup loteAnimals # {}

\* ------------------------------------------------------------- claim C12
\* The routes that validate a body and write or read for it.
BodyRoutes == {"signup", "login", "postAnimal"}

\* The body of the request `r` fails what its route asks of a body: signup
\* wants username, email and a password of 6 characters or more, login wants
\* a username and a password, POST /api/animals wants codigoUnico and sexo.
FailsValidation(r) ==
  LET b == r.body IN
  CASE r.kind = "signup" ->
         ~(/\ b.username.t = "string" /\ b.email.t = "string"
           /\ b.password.t = "string" /\ Len(b.password.v) >= 6)
    [] r.kind = "login" ->
         b.username \in {Undefined, JStr("")} \/ b.password \in {Undefined, JStr("")}
    [] r.kind = "postAnimal" ->
         ~(b.codigoUnico.t = "string" /\ b.sexo.t = "string")
    [] OTHER -> FALSE

\* The handler of the request `r` has run: the route has no middleware, or
\* the middleware let the request through.
HandlerRan(r) == r.kind \in {"signup", "login"} \/ r.user # NoUser

\* The row a 201 reports is in its table.
Written(r) ==
  IF r.kind = "signup" THEN r.newUser \in users' ELSE r.newAnimal \in animals'

ConnectionError == <<"Connection terminated unexpectedly", "">>
HashError == <<"Illegal arguments", "">>

\* The promise of an async handler rejects with `err` outside any try block.
\* What follows is the framework's affair: Express 4 drops the rejection and
\* the request is never answered, Express 5 hands it to the default error
\* handler, which answers 500.
Unhandled(r, err) ==
  {[r EXCEPT !.pc = "rejected", !.error = err],
   [Respond(r, 500) EXCEPT !.error = err]}

\* POST /api/signup: bcrypt.hash rejects; the await is before the try block.
SignupHashThrows(i) ==
  /\ reqs[i].kind = "signup" /\ reqs[i].pc = "insert"
  /\ \E r \in Unhandled(reqs[i], HashError) : reqs' = [reqs EXCEPT ![i] = r]
  /\ UNCHANGED <<users, animals, userSeq, animalSeq, received, now>>
  /\ UNCHANGED elsewhere

\* POST /api/signup: the insert throws; the catch finds no duplicate key in
\* the message and answers 500.
SignupInsertThrows(i) ==
  /\ reqs[i].kind = "signup" /\ reqs[i].pc = "insert"
  /\ reqs' = [reqs EXCEPT ![i] =
       IF IsDuplicateKey(ConnectionError)
       THEN [Respond(Called(@), 409) EXCEPT !.error = ConnectionError]
       ELSE [Respond(Called(@), 500) EXCEPT !.error = ConnectionError]]
  /\ UNCHANGED <<users, animals, userSeq, animalSeq, received, now>>
  /\ UNCHANGED elsewhere

\* POST /api/login: the select throws; the catch answers 500.
LoginLookupThrows(i) ==
  /\ reqs[i].kind = "login" /\ reqs[i].pc = "lookup"
  /\ reqs' = [reqs EXCEPT ![i] =
       [Respond(Called(@), 500) EXCEPT !.error = ConnectionError]]
  /\ UNCHANGED <<users, animals, userSeq, animalSeq, received, now>>
  /\ UNCHANGED elsewhere

\* GET /api/animals: the select throws; the catch answers 500.
AnimalsQueryThrows(i) ==
  /\ reqs[i].kind = "getAnimals" /\ reqs[i].pc = "query"
  /\ reqs' = [reqs EXCEPT ![i] =
       [Respond(Called(@), 500) EXCEPT !.error = ConnectionError]]
  /\ UNCHANGED <<users, animals, userSeq, animalSeq, received, now>>
  /\ UNCHANGED elsewhere

\* POST /api/animals: the insert throws; the catch answers 500.
AnimalInsertThrows(i) ==
  /\ reqs[i].kind = "postAnimal" /\ reqs[i].pc = "insert"
  /\ reqs' = [reqs EXCEPT ![i] =
       [Respond(Called(@), 500) EXCEPT !.error = ConnectionError]]
  /\ UNCHANGED <<users, animals, userSeq, animalSeq, received, now>>
  /\ UNCHANGED elsewhere

NextFaults ==
  \/ Next
  \/ \E i \in 1..Len(reqs) : SignupHashThrows(i)
  \/ \E i \in 1..Len(reqs) : SignupInsertThrows(i)
  \/ \E i \in 1..Len(reqs) : LoginLookupThrows(i)
  \/ \E i \in 1..Len(reqs) : AnimalsQueryThrows(i)
  \/ \E i \in 1..Len(reqs) : AnimalInsertThrows(i)

SpecFaults == Init /\ [][NextFaults]_vars

\* ------------------------------------------------------------- claim C13
\* The handler of request i has come to its end, by a response or by an
\* exception that nothing caught.
HandlerEnded(i) == reqs[i].pc \in {"done", "rejected"}

\* An exception other than a uniqueness conflict was raised in request i.
RaisedOther(i) == reqs[i].error # NoError /\ reqs[i].error[1] # DuplicateKeyMsg

\* C13 (as claimed): a handler in which an exception other than a uniqueness
\* conflict was raised answers 500, and every handler that has come to its
\* end has sent its response.
C13_Claim ==
  \A i \in ReqIds : HandlerEnded(i) =>
    /\ reqs[i].status # 0
    /\ RaisedOther(i) => reqs[i].status = 500

\* What holds of the exceptions raised inside a try block: the response is
\* 500 and it is sent.
CaughtExceptionsAnswer500 ==
  \A i \in ReqIds :
    (HandlerEnded(i) /\ RaisedOther(i) /\ reqs[i].error # HashError) =>
      reqs[i].status = 500

\* ------------------------------------------------------ the Register page
\* registerSchema.parse({username, password}): the first error's message, or
\* "" when the form passes.
RegisterSchemaError(username, password) ==
  IF Len(username) < MinUsernameLen
  THEN "Usuario debe tener al menos 3 caracteres"
  ELSE IF Len(password) < MinPasswordLen
  THEN "Contraseña debe tener al menos 6 caracteres"
  ELSE ""

\* JSON.stringify(result): the parsed form has a username and a password and
\* nothing else.
RegisterBody(username, password) ==
  [NoBody EXCEPT !.username = JStr(username), !.password = JStr(password)]

\* The JSON body of a signup response, as far as the page reads it: `message`
\* and `error` ("" when the body has no such key; the 400 carries `errors`).
SignupResponseBody(r) ==
  CASE r.status = 201 -> [message |-> "Usuario creado", error |-> ""]
    [] r.status = 409 ->
         [message |-> "", error |-> "El nombre de usuario o email ya existe."]
    [] r.status = 500 -> [message |-> "", error |-> r.error[1]]
    [] OTHER -> [message |-> "", error |-> ""]

\* What the form's fields may hold.
FormUsernames == {"an", "ana", "eva"}
FormPasswords == {"abc", "secret"}

\* handleRegister, to its first await: the form is parsed, and sent when it
\* passes; the server takes the request as any other signup.
HandleRegister(username, password) ==
  /\ route = "/register"
  /\ LET msg == RegisterSchemaError(username, password) IN
     IF msg # ""
     THEN /\ message' = msg
          /\ UNCHANGED <<reqs, received, awaiting>>
     ELSE /\ Accepting
          /\ received' = received + 1
          /\ LET body == RegisterBody(username, password)
                 r == Req("signup", NoHeader, body, now)
             IN reqs' = Append(reqs, IF ~InsertUserSchemaOk(body) THEN Respond(r, 400)
                                     ELSE [r EXCEPT !.pc = "insert"])
          /\ awaiting' = awaiting \cup {Len(reqs) + 1}
          /\ UNCHANGED message
  /\ UNCHANGED <<users, animals, userSeq, animalSeq, now, route, handled>>
  /\ UNCHANGED <<schemaVars, appToken, localStorage, fincasVars>>

\* handleRegister, from `await response.json()` on.
RegisterResponse(i) ==
  /\ i \in awaiting /\ IsDone(i)
  /\ awaiting' = awaiting \ {i}
  /\ handled' = handled \cup {i}
  /\ LET data == SignupResponseBody(reqs[i]) IN
     IF data.message = "Usuario creado"
     THEN route' = "/login" /\ UNCHANGED message
     ELSE /\ message' = IF data.error # "" THEN data.error ELSE "Error desconocido"
          /\ UNCHANGED route
  /\ UNCHANGED <<users, animals, userSeq, animalSeq, reqs, received, now>>
  /\ UNCHANGED <<schemaVars, appToken, localStorage, fincasVars>>

\* The browser is on the Register page; the server is as in Init.
InitRegister ==
  /\ \E seeded \in BOOLEAN :
       /\ users = IF seeded THEN SeedUsers ELSE {}
       /\ animals = IF seeded THEN SeedAnimals ELSE {}
       /\ userSeq = IF seeded THEN 2 ELSE 0
       /\ animalSeq = IF seeded THEN 2 ELSE 0
  /\ reqs = <<>> /\ received = 0 /\ now = 0
  /\ SchemaEmpty
  /\ route = "/register" /\ message = ""
  /\ awaiting = {} /\ handled = {}
  /\ appToken = NoWord /\ localStorage = NoWord
  /\ FincasUnmounted

\* The page, the signup route, and other callers of the signup route.
NextRegister ==
  \/ \E username \in FormUsernames, password \in FormPasswords :
       HandleRegister(username, password)
  \/ \E i \in 1..Len(reqs) : RegisterResponse(i)
  \/ Accepting /\ \E body \in SignupBodies : ReceiveSignup(body)
  \/ \E i \in 1..Len(reqs) : SignupInsert(i)

SpecRegister == InitRegister /\ [][NextRegister]_vars

\* ------------------------------------------------------------- claim C14
\* C14 (as claimed): a registration from the page with a username of 3
\* characters or more that no other row holds and a password of 6 characters
\* or more is answered 201 with a user row created, and once the page has
\* handled the response the browser is at /login.
C14_Claim ==
  \A i \in handled :
    LET b == reqs[i].body IN
    (/\ Len(b.username.v) >= 3 /\ Len(b.password.v) >= 6
     /\ \A u \in users : u.username = b.username.v => u = reqs[i].newUser) =>
      /\ reqs[i].status = 201
      /\ reqs[i].newUser \in users
      /\ route = "/login"

\* What the page does with such a registration: the server answers 400 (the
\* body has no email), no row is written, and the page shows its fallback
\* message and stays.
RegisterAlwaysRejected ==
  \A i \in handled :
    /\ reqs[i].status = 400 /\ reqs[i].dbCalls = 0
    /\ route = "/register" /\ message \in {"Error desconocido",
         "Usuario debe tener al menos 3 caracteres",
         "Contraseña debe tener al menos 6 caracteres"}

\* ------------------------------------------------- App, Login and logout
\* loginSchema.parse({username, password}): the first error's message, or
\* "" when the form passes.
LoginSchemaError(username, password) ==
  IF Len(username) < MinUsernameLen
  THEN "Usuario debe tener al menos 3 caracteres"
  ELSE IF Len(password) < MinPasswordLen
  THEN "Contraseña debe tener al menos 6 caracteres"
  ELSE ""

\* The JSON body of a login response, as far as the page reads it: `token`
\* and `error` (NoWord and "" when the body has no such key).
LoginResponseBody(r) ==
  CASE r.status = 200 -> [token |-> r.token, error |-> ""]
    [] r.status = 400 -> [token |-> NoWord, error |-> "Usuario y contraseña requeridos"]
    [] r.status = 401 -> [token |-> NoWord, error |-> "Credenciales inválidas"]
    [] r.status = 500 ->
         [token |-> NoWord, error |-> "Illegal arguments: number, string"]
    [] OTHER -> [token |-> NoWord, error |-> ""]

\* What <Routes> shows at `path` under the token state `tok`: /fincas is the
\* Fincas screen with a token and a redirect to /login without; / redirects.
Resolve(path, tok) ==
  IF path = "/" \/ (path = "/fincas" /\ tok = NoWord) THEN "/login" ELSE path

\* The locations of the application.
Paths == {"/", "/login", "/register", "/fincas"}

\* What the login form's password field may hold.
LoginPasswords == {"abc", "secret", "secreto"}

\* handleLogin, to its first await.
HandleLogin(username, password) ==
  /\ route = "/login"
  /\ LET msg == LoginSchemaError(username, password) IN
     IF msg # ""
     THEN /\ message' = msg
          /\ UNCHANGED <<reqs, received, awaiting>>
     ELSE /\ Accepting
          /\ received' = received + 1
          /\ LET body == [NoBody EXCEPT !.username = JStr(username),
                                        !.password = JStr(password)]
                 r == Req("login", NoHeader, body, now)
             IN reqs' = Append(reqs, IF ~LoginFieldsOk(body) THEN Respond(r, 400)
                                     ELSE [r EXCEPT !.pc = "lookup"])
          /\ awaiting' = awaiting \cup {Len(reqs) + 1}
          /\ UNCHANGED message
  /\ UNCHANGED <<users, animals, userSeq, animalSeq, now, route, handled>>
  /\ UNCHANGED <<schemaVars, appToken, localStorage, fincasVars>>

\* handleLogin, from `await response.json()` on.
LoginResponse(i) ==
  /\ i \in awaiting /\ IsDone(i)
  /\ awaiting' = awaiting \ {i}
  /\ handled' = handled \cup {i}
  /\ LET data == LoginResponseBody(reqs[i]) IN
     IF data.token # NoWord
     THEN /\ localStorage' = data.token
          /\ appToken' = data.token
          /\ route' = Resolve("/fincas", data.token)
          /\ UNCHANGED message
     ELSE /\ message' = IF data.error # "" THEN data.error ELSE "Error desconocido"
          /\ UNCHANGED <<localStorage, appToken, route>>
  /\ UNCHANGED <<users, animals, userSeq, animalSeq, reqs, received, now>>
  /\ UNCHANGED <<schemaVars, fincasVars>>

\* handleLogout, the button of the Fincas screen: the entry is removed from
\* localStorage and the browser sent to /login; App's state is not touched.
HandleLogout ==
  /\ route = "/fincas"
  /\ localStorage' = NoWord
  /\ route' = Resolve("/login", appToken)
  /\ message' = ""
  /\ UNCHANGED <<users, animals, userSeq, animalSeq, reqs, received, now>>
  /\ UNCHANGED <<schemaVars, awaiting, handled, appToken, fincasVars>>

\* The user moves within the application (a link, the back button): App
\* stays mounted and keeps its state.
Navigate(path) ==
  /\ route' = Resolve(path, appToken)
  /\ route' # route
  /\ message' = ""
  /\ UNCHANGED <<users, animals, userSeq, animalSeq, reqs, received, now>>
  /\ UNCHANGED <<schemaVars, awaiting, handled, appToken, localStorage, fincasVars>>

\* The page is loaded anew: App mounts and reads its token from localStorage;
\* the fetches of the page that was unloaded are gone.
Reload ==
  /\ appToken' = localStorage
  /\ route' = Resolve(route, localStorage)
  /\ message' = ""
  /\ awaiting' = {}
  /\ <<appToken', route', message', awaiting'>> # <<appToken, route, message, awaiting>>
  /\ UNCHANGED <<users, animals, userSeq, animalSeq, reqs, received, now>>
  /\ UNCHANGED <<schemaVars, handled, localStorage, fincasVars>>

\* The application is opened in a browser that holds no token, or the token
\* of an earlier login; the database is in use.
InitSession ==
  /\ users = SeedUsers /\ animals = SeedAnimals
  /\ userSeq = 2 /\ animalSeq = 2
  /\ reqs = <<EarlierLogin>> /\ received = 0 /\ now = 0
  /\ SchemaEmpty
  /\ localStorage \in {NoWord, EarlierLogin.token}
  /\ appToken = localStorage
  /\ route = Resolve("/", appToken) /\ message = ""
  /\ awaiting = {} /\ handled = {}
  /\ FincasUnmounted

NextSession ==
  \/ \E username \in FormUsernames, password \in LoginPasswords :
       HandleLogin(username, password)
  \/ \E i \in 1..Len(reqs) : LoginLookup(i)
  \/ \E i \in 1..Len(reqs) : LoginResponse(i)
  \/ HandleLogout
  \/ \E path \in Paths : Navigate(path)
  \/ Reload
  \/ Tick

SpecSession == InitSession /\ [][NextSession]_vars

\* ------------------------------------------------------------- claim C15
\* C15 (as claimed): App's token state and localStorage's 'token' entry
\* agree after every login and logout, so that after a logout, and until the
\* next successful login, the token is absent from both and /fincas shows
\* the redirect to /login, never the Fincas screen.
C15_Claim ==
  /\ appToken = localStorage
  /\ (route = "/fincas") => (localStorage # NoWord)

\* The Fincas screen is on display although no token is stored: the user has
\* logged out and gone back.
FincasAfterLogout == route = "/fincas" /\ localStorage = NoWord /\ appToken # NoWord

\* ------------------------------------------------------- the Fincas screen
\* A finca as the screen holds it.
Finca(id, fname, floc) == [id |-> id, name |-> fname, location |-> floc]

\* A fetch of the screen.  stage is "sent" until the server has served it,
\* "replied" until the screen has taken the response, then "done"; ok is
\* response.ok and data the list a GET brought.
Call(method, id, fname, floc) ==
  [method |-> method, id |-> id, name |-> fname, location |-> floc,
   stage |-> "sent", ok |-> TRUE, data |-> {}]

\* fetchFincas, to its await: GET /api/fincas is sent.
FetchFincas(cs) == Append(cs, Call("GET", 0, "", ""))

\* fincaSchema.safeParse({name, location}): the first error's message, or "".
FincaSchemaError(fname, floc) ==
  IF Len(fname) < 1 THEN "Nombre es requerido"
  ELSE IF Len(floc) < 1 THEN "Ubicación es requerida"
  ELSE ""

\* Whether a handler may send a request and the GET that follows it (the
\* bound on a behaviour's fetches).
Calling == Len(calls) + 2 <= MaxCalls

\* What the user may type into the two fields.
FormValues == {<<"", "">>, <<"a", "">>, <<"a", "x">>}

\* The rest of the browser and the server's other routes play no part.
FincasOnly ==
  UNCHANGED <<users, animals, userSeq, animalSeq, reqs, received, now,
              schemaVars, route, awaiting, handled, appToken, localStorage>>

\* The user types: setName, setLocation.
SetForm(fname, floc) ==
  /\ <<fname, floc>> # <<nameField, locationField>>
  /\ nameField' = fname /\ locationField' = floc
  /\ UNCHANGED <<fincas, editingId, calls, fincaRows, fincaSeq, message>>
  /\ FincasOnly

\* The submit button while editingId is falsy: handleCreateFinca, to its
\* await.
HandleCreateFinca ==
  /\ editingId = 0
  /\ LET msg == FincaSchemaError(nameField, locationField) IN
     IF msg # "" THEN message' = msg /\ message' # message /\ UNCHANGED calls
     ELSE /\ Calling
          /\ calls' = Append(calls, Call("POST", 0, nameField, locationField))
          /\ UNCHANGED message
  /\ UNCHANGED <<fincas, editingId, nameField, locationField, fincaRows, fincaSeq>>
  /\ FincasOnly

\* The Editar button of a finca on display: handleEditFinca(id).
HandleEditFinca(id) ==
  /\ \E f \in fincas :
       /\ f.id = id
       /\ nameField' = f.name /\ locationField' = f.location
  /\ editingId' = id
  /\ <<nameField', locationField', editingId'>> # <<nameField, locationField, editingId>>
  /\ UNCHANGED <<fincas, calls, fincaRows, fincaSeq, message>>
  /\ FincasOnly

\* The submit button while editingId is truthy: handleUpdateFinca, to its
\* await.
HandleUpdateFinca ==
  /\ editingId # 0
  /\ LET msg == FincaSchemaError(nameField, locationField) IN
     IF msg # "" THEN message' = msg /\ message' # message /\ UNCHANGED calls
     ELSE /\ Calling
          /\ calls' = Append(calls, Call("PUT", editingId, nameField, locationField))
          /\ UNCHANGED message
  /\ UNCHANGED <<fincas, editingId, nameField, locationField, fincaRows, fincaSeq>>
  /\ FincasOnly

\* The Cancelar Edición button.
CancelEdit ==
  /\ editingId # 0
  /\ nameField' = "" /\ locationField' = "" /\ editingId' = 0
  /\ UNCHANGED <<fincas, calls, fincaRows, fincaSeq, message>>
  /\ FincasOnly

\* The Eliminar button of a finca on display, confirmed: handleDeleteFinca(id),
\* to its await.
HandleDeleteFinca(id) ==
  /\ \E f \in fincas : f.id = id
  /\ Calling
  /\ calls' = Append(calls, Call("DELETE", id, "", ""))
  /\ UNCHANGED <<fincas, editingId, nameField, locationField, fincaRows, fincaSeq, message>>
  /\ FincasOnly

\* The server's answer to the fetch `c` on the fincas `rows`: GET lists them,
\* POST adds one under the id `newId`, PUT and DELETE act on the finca with
\* the id in the path and answer 404 when there is none.
FincasRoute(rows, c, newId) ==
  LET there == \E f \in rows : f.id = c.id IN
  CASE c.method = "GET" -> [ok |-> TRUE, data |-> rows, rows |-> rows]
    [] c.method = "POST" ->
         [ok |-> TRUE, data |-> {},
          rows |-> rows \cup {Finca(newId, c.name, c.location)}]
    [] c.method = "PUT" ->
         [ok |-> there, data |-> {},
          rows |-> {IF f.id = c.id THEN Finca(f.id, c.name, c.location) ELSE f :
                    f \in rows}]
    [] OTHER ->
         [ok |-> there, data |-> {}, rows |-> {f \in rows : f.id # c.id}]

\* The server serves a fetch; fetches are served in any order.
ServeFincas(k) ==
  /\ calls[k].stage = "sent"
  /\ LET res == FincasRoute(fincaRows, calls[k], fincaSeq + 1) IN
     /\ fincaRows' = res.rows
     /\ fincaSeq' = IF calls[k].method = "POST" THEN fincaSeq + 1 ELSE fincaSeq
     /\ calls' = [calls EXCEPT ![k] =
          [@ EXCEPT !.stage = "replied", !.ok = res.ok, !.data = res.data]]
  /\ UNCHANGED <<fincas, editingId, nameField, locationField, message>>
  /\ FincasOnly

\* A response arrives, in any order, and its handler runs on from its await:
\* fetchFincas sets the list; handleCreateFinca and handleUpdateFinca show
\* the message, clear the form and call fetchFincas; handleDeleteFinca calls
\* fetchFincas when the response is ok.
FincasResponse(k) ==
  /\ calls[k].stage = "replied"
  /\ LET c == calls[k]
         taken == [calls EXCEPT ![k] = [@ EXCEPT !.stage = "done"]]
     IN CASE c.method = "GET" ->
               /\ fincas' = c.data
               /\ calls' = taken
               /\ UNCHANGED <<editingId, nameField, locationField, message>>
          [] c.method = "POST" ->
               /\ message' = IF c.ok THEN "Finca creada" ELSE "Error"
               /\ nameField' = "" /\ locationField' = ""
               /\ calls' = FetchFincas(taken)
               /\ UNCHANGED <<fincas, editingId>>
          [] c.method = "PUT" ->
               /\ message' = IF c.ok THEN "Finca actualizada" ELSE "Finca no encontrada"
               /\ nameField' = "" /\ locationField' = "" /\ editingId' = 0
               /\ calls' = FetchFincas(taken)
               /\ UNCHANGED fincas
          [] OTHER ->
               /\ calls' = IF c.ok THEN FetchFincas(taken) ELSE taken
               /\ message' = IF c.ok THEN "Finca eliminada con éxito."
                             ELSE "Error al eliminar finca"
               /\ UNCHANGED <<fincas, editingId, nameField, locationField>>
  /\ UNCHANGED <<fincaRows, fincaSeq>>
  /\ FincasOnly

\* setTimeout(() => setMessage(''), 3000).
ClearMessage ==
  /\ message # ""
  /\ message' = ""
  /\ UNCHANGED fincasVars
  /\ FincasOnly

\* The fincas the server may hold when the screen is opened.
SeedFincas == {Finca(1, "a", "x")}

\* The Fincas screen has mounted with the token of the earlier login, and
\* its effect has called fetchFincas.
InitFincas ==
  /\ users = SeedUsers /\ animals = SeedAnimals
  /\ userSeq = 2 /\ animalSeq = 2
  /\ reqs = <<EarlierLogin>> /\ received = 0 /\ now = 0
  /\ SchemaEmpty
  /\ localStorage = EarlierLogin.token /\ appToken = localStorage
  /\ route = "/fincas" /\ message = ""
  /\ awaiting = {} /\ handled = {}
  /\ fincas = {} /\ editingId = 0 /\ nameField = "" /\ locationField = ""
  /\ calls = FetchFincas(<<>>)
  /\ \E seeded \in BOOLEAN :
       /\ fincaRows = IF seeded THEN SeedFincas ELSE {}
       /\ fincaSeq = IF seeded THEN 1 ELSE 0

NextFincas ==
  \/ \E v \in FormValues : SetForm(v[1], v[2])
  \/ HandleCreateFinca
  \/ \E id \in 1..MaxCalls : HandleEditFinca(id)
  \/ HandleUpdateFinca
  \/ CancelEdit
  \/ \E id \in 1..MaxCalls : HandleDeleteFinca(id)
  \/ \E k \in 1..Len(calls) : ServeFincas(k)
  \/ \E k \in 1..Len(calls) : FincasResponse(k)
  \/ ClearMessage

SpecFincas == InitFincas /\ [][NextFincas]_vars

\* ------------------------------------------------------------- claim C16
\* No fetch of the screen is in flight.
Settled == \A k \in 1..Len(calls) : calls[k].stage = "done"

\* The GET issued last.
LastGet == CHOOSE k \in 1..Len(calls) :
             /\ calls[k].method = "GET"
             /\ \A j \in 1..Len(calls) : calls[j].method = "GET" => j <= k

\* C16 (as claimed): once every fetch has completed, the list on display is
\* the response of the GET that was issued last, in whatever order the
\* responses arrived.
C16_Claim == Settled => fincas = calls[LastGet].data

\* ------------------------------------------------------------- claim C17
\* C17 (as claimed): in every state of the screen editingId is null or the
\* id of a finca in the list on display, so that handleUpdateFinca sends its
\* PUT only for a finca in the list.
C17_Claim == editingId = 0 \/ \E f \in fincas : f.id = editingId

\* The finca being edited was deleted on the server and is gone from the
\* refreshed list, with nothing in flight: the submit button still updates.
EditingDeletedFinca ==
  /\ Settled /\ editingId # 0
  /\ ~\E f \in fincas \cup fincaRows : f.id = editingId

\* ------------------------------------------------------------- claim C18
\* The users table without the rows that hold `username`.
Without(tbl, username) == {u \in tbl : u.username # username}

\* C18 (as claimed): when a login with a non-empty username and password is
\* answered for a username that exists and a password that does not match,
\* the response is the 401 that the same request gets when no user has the
\* username: same status, same body.
C18_Claim ==
  [][\A i \in ReqIds :
       LET b == reqs[i].body IN
       (/\ reqs[i].kind = "login" /\ reqs[i].pc = "lookup" /\ reqs'[i].pc = "done"
        /\ b.username \notin {Undefined, JStr("")}
        /\ b.password \notin {Undefined, JStr("")}
        /\ \E u \in users : u.username = b.username.v
        /\ \A u \in users : ~Matches(b, u)) =>
         LET absent == LoginRoute(Without(users, b.username.v), b, now) IN
         /\ absent.status = 401
         /\ reqs'[i].status = absent.status
         /\ reqs'[i].token = absent.token
         /\ LoginRoute(users, b, now) = absent]_vars

\* What holds when the password is a string: a login with a wrong password
\* for an existing username is answered as one for a username nobody has.
StringPasswordHidesUsername ==
  \A b \in LoginBodies :
    (/\ LoginFieldsOk(b) /\ b.password.t = "string"
     /\ \A u \in users : ~Matches(b, u)) =>
      LoginRoute(users, b, now) = LoginRoute(Without(users, b.username.v), b, now)

====
